---- MODULE Spec2Model ----
(***************************************************************************)
(* A model of mirep.py (gscafo78/mirep): the package index parser          *)
(* (PackageHandler.parse_packages_data), the downloader                    *)
(* (Downloader.download_file / download_directory), the mirroring run      *)
(* (RepositoryManage.mirror_repository) on a thread pool, and the removal  *)
(* (RepositoryManage.remove_repository).                                   *)
(*                                                                         *)
(* Text is modelled as a sequence of lines (the result of                  *)
(* data.splitlines()), a line as a sequence of tokens: " " is a blank,     *)
(* ":" a colon, any other token a run of characters holding neither.       *)
(***************************************************************************)
EXTENDS Naturals, Sequences, FiniteSets, Bags, TLC

\* The longest input text, in lines, given to the parser.
MaxLines == 4

\* How many times in a row the mirror is run on the same local tree.
MaxRuns == 2

\* How many remote requests (fetches, directory syncs) of a scenario may be
\* answered with something else than success.
MaxFaults == 1

VARIABLES
    \* parse_packages_data: its locals
    data,             \* lines = data.splitlines()
    idx,              \* position of the for loop over lines (next line to read)
    packages,         \* packages
    current_package,  \* current_package: an insertion-ordered dict
    ppc,              \* "loop" | "flush" | "done" | "error"
    \* the command line
    args,             \* [distributions, components, architectures, threads]
    \* the world outside the process
    fs,               \* the local tree: path -> content, for the files that exist
    remote,           \* what the remote answers: url or directory -> answer, once asked
    faults,           \* answers so far that were not a success
    \* Downloader
    downloaded_files, \* self.downloaded_files, as a bag of paths
    downloaded_count, \* self.downloaded_count
    skipped_count,    \* self.skipped_count
    \* mirror_repository
    futures,          \* futures: the submitted download_file calls, each with its position
    mpc,              \* position of the main thread in mirror_repository
    di, ci, ai,       \* the distribution, component and architecture loops
    ki,               \* the cert loop, or the loop over packages_info
    packages_info,    \* packages_info of the current architecture
    exc,              \* the exception on its way out of mirror_repository, or "none"
    result,           \* "running", "ok", or the exception mirror_repository raised
    \* the runs of the program
    run,              \* 1 for the first run, 2 for the second, ...
    fs_before,        \* the local tree when the current run started
    \* the wget commands download_directory has run to their end, in order
    wget_runs,
    \* remove_repository
    file_list,        \* file_list: the paths to erase
    user_input,       \* what input() returned, as a sequence of characters
    dir_order         \* os.listdir: the order in which it returns the index file names

pvars == <<data, idx, packages, current_package, ppc>>

wvars == <<fs, remote, faults>>

dvars == <<downloaded_files, downloaded_count, skipped_count>>

lvars == <<mpc, di, ci, ai, ki, packages_info, exc, result, wget_runs>>

rvars == <<file_list, user_input, dir_order>>

mvars == <<args, fs, remote, faults, downloaded_files, downloaded_count,
           skipped_count, futures, mpc, di, ci, ai, ki, packages_info, exc,
           result, run, fs_before, wget_runs, file_list, user_input,
           dir_order>>

vars == <<data, idx, packages, current_package, ppc, args, fs, remote, faults,
          downloaded_files, downloaded_count, skipped_count, futures, mpc, di,
          ci, ai, ki, packages_info, exc, result, run, fs_before, wget_runs,
          file_list, user_input, dir_order>>

-----------------------------------------------------------------------------
(* Python values *)

\* None / a value: an optional is <<>> or <<v>>.
None == <<>>
Some(v) == <<v>>

\* A dict is the sequence of its <<key, value>> items in insertion order.
DictKeys(d) == [i \in 1..Len(d) |-> d[i][1]]
DictHas(d, k) == \E i \in 1..Len(d) : d[i][1] = k
DictGet(d, k) == d[CHOOSE i \in 1..Len(d) : d[i][1] = k][2]
\* A mutant of DictSet: an overwritten key moves to the end.
DictSetMoveLast(d, k, v) ==
    Append(SelectSeq(d, LAMBDA it : it[1] # k), <<k, v>>)

\* d[k] = v: an existing key keeps its position, a new key goes last.
DictSet(d, k, v) ==
    IF DictHas(d, k)
    THEN [i \in 1..Len(d) |-> IF d[i][1] = k THEN <<k, v>> ELSE d[i]]
    ELSE Append(d, <<k, v>>)
\* d.get(k): the value or None.
DictGetOpt(d, k) == IF DictHas(d, k) THEN Some(DictGet(d, k)) ELSE None

-----------------------------------------------------------------------------
(* str operations used by the parser *)

RECURSIVE lstrip(_)
lstrip(s) == IF s # <<>> /\ Head(s) = " " THEN lstrip(Tail(s)) ELSE s

RECURSIVE rstrip(_)
rstrip(s) ==
    IF s # <<>> /\ s[Len(s)] = " " THEN rstrip(SubSeq(s, 1, Len(s) - 1)) ELSE s

\* line.strip()
strip(s) == rstrip(lstrip(s))

\* The positions where ': ' occurs in s.
SepAt(s) == {i \in 1..(Len(s) - 1) : s[i] = ":" /\ s[i + 1] = " "}

\* ': ' in line
HasSep(s) == SepAt(s) # {}

\* line.split(': ', 1): <<key, value>>, cut at the first ': '.
split(s) ==
    LET i == CHOOSE j \in SepAt(s) : \A k \in SepAt(s) : j <= k
    IN  <<SubSeq(s, 1, i - 1), SubSeq(s, i + 2, Len(s))>>

\* next(reversed(current_package), None): the last key in dict order, or None.
last_key_of(d) == IF d = <<>> THEN None ELSE Some(d[Len(d)][1])

\* if last_key: None and the empty string are false.
Truthy(opt) == opt # None /\ opt[1] # <<>>

-----------------------------------------------------------------------------
(* parse_packages_data, one iteration of its loop over the lines *)

\* A mutant of Continue: the `if last_key:` guard left out.
ContinueNoGuard(st, line) ==
    LET last_key == last_key_of(st.current_package) IN
    IF last_key # None /\ DictHas(st.current_package, last_key[1])
    THEN [st EXCEPT !.current_package =
             DictSet(@, last_key[1], DictGet(@, last_key[1]) \o <<" ">> \o line)]
    ELSE [st EXCEPT !.error = TRUE]

\* The else branch for a line without ': ' (a continuation line): the line
\* is added to the value of last_key; current_package[last_key] raises
\* KeyError for a key the dict does not hold.
Continue(st, line) ==
    LET last_key == last_key_of(st.current_package) IN
    IF Truthy(last_key)
    THEN IF DictHas(st.current_package, last_key[1])
         THEN [st EXCEPT !.current_package =
                  DictSet(@, last_key[1],
                          DictGet(@, last_key[1]) \o <<" ">> \o line)]
         ELSE [st EXCEPT !.error = TRUE]
    ELSE st

\* The body of `for line in lines` on the locals st = [packages,
\* current_package, error], for one raw line.
ParseLine(st, raw) ==
    LET line == strip(raw) IN
    IF line = <<>>
    THEN IF st.current_package # <<>>
         THEN [st EXCEPT !.packages = Append(@, st.current_package),
                         !.current_package = <<>>]
         ELSE st
    ELSE IF HasSep(line)
         THEN [st EXCEPT !.current_package =
                            DictSet(@, split(line)[1], split(line)[2])]
         ELSE Continue(st, line)

\* The code after the loop: the last package is added when there is one.
ParseEnd(st) ==
    IF st.current_package # <<>>
    THEN [st EXCEPT !.packages = Append(@, st.current_package)]
    ELSE st

RECURSIVE ParseFrom(_, _, _)
ParseFrom(st, lines, i) ==
    IF st.error \/ i > Len(lines) THEN st
    ELSE ParseFrom(ParseLine(st, lines[i]), lines, i + 1)

ParseStart == [packages |-> <<>>, current_package |-> <<>>, error |-> FALSE]

\* parse_packages_data(data): the packages list, or None on an error.
parse_packages_data(lines) ==
    LET st == ParseFrom(ParseStart, lines, 1)
    IN  IF st.error THEN None ELSE Some(ParseEnd(st).packages)

-----------------------------------------------------------------------------
(* The parser run line by line on every text of at most MaxLines lines *)

\* The lines the input texts are made of.
Lines ==
    { <<>>,                                  \* ""
      <<" ">>,                               \* " "
      <<"A", ":", " ", "1">>,                \* "A: 1"
      <<"B", ":", " ", "2", ":", " ", "3">>, \* "B: 2: 3"
      <<"A", ":", " ", "4">>,                \* "A: 4"
      <<":", " ", "y">>,                     \* ": y"
      <<" ", "x", ":">> }                    \* " x:"

Texts == UNION {[1..n -> Lines] : n \in 0..MaxLines}

\* The mirror is not run: its variables stay as they are here.
MirrorIdle ==
    /\ args = [distributions |-> <<>>, components |-> <<>>,
               architectures |-> <<>>, threads |-> 1]
    /\ fs = <<>> /\ remote = <<>> /\ faults = 0
    /\ downloaded_files = EmptyBag /\ downloaded_count = 0 /\ skipped_count = 0
    /\ futures = <<>>
    /\ mpc = "idle" /\ di = 1 /\ ci = 1 /\ ai = 1 /\ ki = 1
    /\ packages_info = <<>> /\ exc = "none" /\ result = "idle"
    /\ run = 0 /\ fs_before = <<>>
    /\ wget_runs = <<>>
    /\ file_list = <<>> /\ user_input = <<>> /\ dir_order = <<>>

ParseInit ==
    /\ MirrorIdle
    /\ data \in Texts
    /\ idx = 1
    /\ packages = <<>>
    /\ current_package = <<>>
    /\ ppc = "loop"

ParseLoop ==
    /\ ppc = "loop"
    /\ idx <= Len(data)
    /\ LET st == ParseLine([packages |-> packages,
                            current_package |-> current_package,
                            error |-> FALSE], data[idx])
       IN  /\ packages' = st.packages
           /\ current_package' = st.current_package
           /\ ppc' = IF st.error THEN "error" ELSE "loop"
    /\ idx' = idx + 1
    /\ UNCHANGED data
    /\ UNCHANGED mvars

ParseLoopEnd ==
    /\ ppc = "loop"
    /\ idx > Len(data)
    /\ ppc' = "flush"
    /\ UNCHANGED <<data, idx, packages, current_package>>
    /\ UNCHANGED mvars

ParseFlush ==
    /\ ppc = "flush"
    /\ LET st == ParseEnd([packages |-> packages,
                           current_package |-> current_package,
                           error |-> FALSE])
       IN  packages' = st.packages
    /\ ppc' = "done"
    /\ UNCHANGED <<data, idx, current_package>>
    /\ UNCHANGED mvars

ParseNext == ParseLoop \/ ParseLoopEnd \/ ParseFlush

SpecParse == ParseInit /\ [][ParseNext]_vars

-----------------------------------------------------------------------------
(* The input text read as blocks of lines, for the statements about the    *)
(* parser                                                                  *)

IsBlankLine(l) == strip(l) = <<>>
IsKeyLine(l) == HasSep(strip(l))
IsContinuationLine(l) == ~IsBlankLine(l) /\ ~IsKeyLine(l)
KeyOfLine(l) == split(strip(l))[1]
ValueOfLine(l) == split(strip(l))[2]

\* Lines i..j hold no blank line: they are in one block.
SameBlock(lines, i, j) == \A k \in i..j : ~IsBlankLine(lines[k])

\* The key lines that precede line i in its block.
KeyLinesBefore(lines, i) ==
    {j \in 1..(i - 1) : IsKeyLine(lines[j]) /\ SameBlock(lines, j, i)}

\* The first key line of every block that has one.
BlockStarts(lines) ==
    {i \in 1..Len(lines) : IsKeyLine(lines[i]) /\ KeyLinesBefore(lines, i) = {}}

\* The key lines of the block whose first key line is s.
KeyLinesOf(lines, s) ==
    {i \in s..Len(lines) : IsKeyLine(lines[i]) /\ SameBlock(lines, s, i)}

RECURSIVE Ascending(_)
Ascending(S) ==
    IF S = {} THEN <<>>
    ELSE LET m == CHOOSE x \in S : \A y \in S : x <= y
         IN  <<m>> \o Ascending(S \ {m})

\* The keys of the block starting at s, each once, in first-seen order.
FirstSeenKeys(lines, s) ==
    LET kl == KeyLinesOf(lines, s)
        firsts == {i \in kl : ~\E j \in kl : j < i /\ KeyOfLine(lines[j]) = KeyOfLine(lines[i])}
        order == Ascending(firsts)
    IN  [n \in 1..Len(order) |-> KeyOfLine(lines[order[n]])]

\* The value given by the last key line for key k in the block starting at s.
LastValue(lines, s, k) ==
    LET kl == {i \in KeyLinesOf(lines, s) : KeyOfLine(lines[i]) = k}
        last == CHOOSE i \in kl : \A j \in kl : j <= i
    IN  ValueOfLine(lines[last])

IsPrefix(p, s) == Len(p) <= Len(s) /\ SubSeq(s, 1, Len(p)) = p

\* C1: the parser returns one record per block that holds a key line, in
\* input order, and no empty record (blank lines add none); the keys of a
\* record are the keys of its block in first-seen order, and the value of a
\* repeated key starts with the value of its last key line.
C1_OneRecordPerBlock ==
    ppc = "done" =>
        LET starts == Ascending(BlockStarts(data)) IN
        /\ Len(packages) = Len(starts)
        /\ \A r \in 1..Len(packages) :
              /\ packages[r] # <<>>
              /\ r <= Len(starts) =>
                    /\ DictKeys(packages[r]) = FirstSeenKeys(data, starts[r])
                    /\ \A n \in 1..Len(packages[r]) :
                          IsPrefix(LastValue(data, starts[r], packages[r][n][1]),
                                   packages[r][n][2])

\* A text that starts with a blank line has been parsed into one record,
\* from a block that repeats its first key after another key.
C1_Witness ==
    /\ ppc = "done"
    /\ Len(packages) = 1
    /\ Len(data) > 0 /\ IsBlankLine(data[1])
    /\ \E s \in BlockStarts(data) :
          /\ Len(FirstSeenKeys(data, s)) = 2
          /\ Cardinality(KeyLinesOf(data, s)) = 3
          /\ KeyOfLine(data[s]) = KeyOfLine(data[s + 2])

\* C2: a continuation line that follows a key line of its record is added,
\* after one space, to the value of the key of the nearest preceding key
\* line of that record, whatever that key is.
C2_ContinuationExtendsNearestKey ==
    [][(/\ ppc = "loop"
        /\ idx <= Len(data)
        /\ IsContinuationLine(data[idx])
        /\ KeyLinesBefore(data, idx) # {})
       => LET prev == CHOOSE j \in KeyLinesBefore(data, idx) :
                          \A k \in KeyLinesBefore(data, idx) : k <= j
              key == KeyOfLine(data[prev])
          IN  /\ DictHas(current_package', key)
              /\ DictGet(current_package', key)
                    = DictGet(current_package, key) \o <<" ">> \o strip(data[idx])
      ]_vars

\* A line without ': ' that no key line precedes in its block.
IsOrphan(lines, i) ==
    IsContinuationLine(lines[i]) /\ KeyLinesBefore(lines, i) = {}

\* C3: the parser never ends in an error and always goes on to return; a
\* line without ': ' before any key line of its record changes neither the
\* current record nor the output.
C3_Total ==
    /\ [](ppc # "error" /\ (ppc # "done" => ENABLED ParseNext))
    /\ [][(ppc = "loop" /\ idx <= Len(data) /\ IsOrphan(data, idx))
            => UNCHANGED <<packages, current_package>>]_vars

\* A text with an orphan line has been parsed into at least one record.
C3_Witness ==
    /\ ppc = "done"
    /\ packages # <<>>
    /\ \E i \in 1..Len(data) : IsOrphan(data, i)

-----------------------------------------------------------------------------
(* The command line, the local tree and the remote                         *)

\* The selectors and thread counts the mirror is run with.
ArgsChoices ==
    { [distributions |-> <<"stable">>, components |-> <<"main">>,
       architectures |-> <<"amd64">>, threads |-> 2],
      [distributions |-> <<"stable">>, components |-> <<"main">>,
       architectures |-> <<"amd64", "i386">>, threads |-> 1],
      \* the same architecture given twice
      [distributions |-> <<"stable">>, components |-> <<"main">>,
       architectures |-> <<"amd64", "amd64">>, threads |-> 1] }

\* A mutant of Certs: the detached signature is not fetched.
CertsNoSignature == <<"InRelease", "Release">>

\* for cert in ["InRelease", "Release", "Release.gpg"]
Certs == <<"InRelease", "Release", "Release.gpg">>

\* Paths are relative to {rootpath}/{url}/{inpath}/ (a url is the same path
\* after {proto}://{url}/{inpath}/).
ReleasePath(d, cert) == <<"dists", d, cert>>
ContentsPath(d, c, a) == <<"dists", d, c, "Contents", a>>
I18nDir(d, c) == <<"dists", d, c, "i18n">>
SourceDir(d, c) == <<"dists", d, c, "source">>
BinaryDir(d, c, a) == <<"dists", d, c, "binary", a>>
InstallerDir(d, c, a) == <<"dists", d, c, "debian-installer", "binary", a>>

\* f"{package.get('Filename')}": the field, or "None" when it is missing.
FilenamePath(package) ==
    LET f == DictGetOpt(package, <<"Filename">>)
    IN  IF f = None THEN <<"None">> ELSE f[1]

\* The package indexes a remote binary-{arch}/ directory may hold.
IndexText(id) ==
    IF id = "T1"
    THEN << <<"Package", ":", " ", "foo">>, <<"Filename", ":", " ", "p1">>,
            <<>>,
            <<"Package", ":", " ", "bar">>, <<"Filename", ":", " ", "p2">> >>
    ELSE << <<"Package", ":", " ", "foo">>, <<"Filename", ":", " ", "p1">>,
            <<>>,
            <<"Package", ":", " ", "baz">> >>

NoFiles == <<>>

\* What a fetch of a url can be answered with: the body, a 404 status,
\* another error status, or no answer at all (requests raises an exception
\* that is not an HTTPError).
FetchOk == {[status |-> "ok", files |-> NoFiles]}
FetchFaults == {[status |-> st, files |-> NoFiles] : st \in {"notfound", "error", "conn"}}

\* What wget -r of a directory can end with: exit status 0 with the files it
\* saved, or a CalledProcessError ("failed": exit status 8, the path does not
\* exist, or another status; download_directory only logs either).
SyncFaults == {[status |-> "failed", files |-> NoFiles]}
SyncOk == {[status |-> "ok", files |-> ("file" :> "body")]}

\* binary-{arch}/: an index, plain or compressed, or a directory without
\* index; wget failing; a compressed index that does not decode.
BinaryOk ==
    { [status |-> "ok", files |-> ("Packages" :> "T1")],
      [status |-> "ok", files |-> ("Packages.gz" :> "T2")],
      [status |-> "ok", files |-> NoFiles] }
BinaryFaults ==
    SyncFaults \cup
    { [status |-> "ok", files |-> ("Packages.xz" :> "bad")] }

Answers == FetchOk \cup FetchFaults \cup SyncOk \cup SyncFaults \cup BinaryOk \cup BinaryFaults

\* The remote answers a for p: as it did before when p was asked for before
\* (the remote does not change), else with any answer of its kind, of which
\* at most MaxFaults are not a success.
Asked(p, a, oks, faulty) ==
    IF p \in DOMAIN remote
    THEN a = remote[p] /\ UNCHANGED <<remote, faults>>
    ELSE /\ a \in oks \cup (IF faults < MaxFaults THEN faulty ELSE {})
         /\ remote' = (p :> a) @@ remote
         /\ faults' = IF a \in faulty THEN faults + 1 ELSE faults

\* os.path.exists(full_path)
Exists(p) == p \in DOMAIN fs

\* The files of the local tree under directory dir (os.walk, os.listdir).
FilesUnder(tree, dir) == {p \in DOMAIN tree : IsPrefix(dir, p) /\ p # dir}

-----------------------------------------------------------------------------
(* Downloader.download_directory: runs wget in the calling thread *)

\* The local tree after wget saved the files of answer a under dir.
Saved(dir, a) ==
    [p \in DOMAIN fs \cup {dir \o <<n>> : n \in DOMAIN a.files} |->
        IF \E n \in DOMAIN a.files : p = dir \o <<n>>
        THEN a.files[(CHOOSE n \in DOMAIN a.files : p = dir \o <<n>>)]
        ELSE fs[p]]

\* A mutant of download_directory: wget is started and not waited for.
download_directory_detached(dir, oks, faulty) ==
    UNCHANGED <<remote, faults, wget_runs, fs, downloaded_files>>

download_directory(dir, oks, faulty) ==
    \E a \in Answers :
        /\ Asked(dir, a, oks, faulty)
        \* subprocess.run(command, check=True) has returned or raised
        /\ wget_runs' = Append(wget_runs, dir)
        /\ IF a.status = "ok"
           THEN /\ fs' = Saved(dir, a)
                \* _add_downloaded_files_from_directory
                /\ downloaded_files' =
                       downloaded_files (+) SetToBag(FilesUnder(Saved(dir, a), dir))
           ELSE UNCHANGED <<fs, downloaded_files>>

-----------------------------------------------------------------------------
(* PackageHandler.extract_file and find_and_extract_packages *)

IsIndexName(n) == n \in {"Packages", "Packages.xz", "Packages.gz"}
IsCompressed(n) == n \in {"Packages.xz", "Packages.gz"}

\* extract_file(file_path): the text, or None when lzma / gzip cannot decode.
extract_file(p) ==
    IF IsCompressed(p[Len(p)]) /\ fs[p] = "bad" THEN None
    ELSE Some(IndexText(fs[p]))

\* find_and_extract_packages(pack_files) when `first` is the first index file
\* of the list: [raised, value]; the value is None when the list holds no
\* index file.
find_and_extract_packages(pack_files, first) ==
    IF ~\E p \in pack_files : IsIndexName(p[Len(p)])
    THEN [raised |-> "none", value |-> None]
    ELSE LET text == extract_file(first) IN
         IF text = None
         THEN [raised |-> "DecodeError", value |-> None]
         ELSE [raised |-> "none", value |-> parse_packages_data(text[1])]

-----------------------------------------------------------------------------
(* Downloader.download_file, run by a worker of the pool. A future is       *)
(* [path, overwrite, st, tmp]: st is the position of the call               *)
(*   "queued"      submitted, not yet started                               *)
(*   "skip_store"  the file exists and overwrite is false; skipped_count    *)
(*                 read into tmp, not yet written back                      *)
(*   "request"     about to call requests.get                               *)
(*   "write"       the answer is a success, the file not yet written        *)
(*   "inc_store"   the file written and appended to downloaded_files;       *)
(*                 downloaded_count read into tmp, not yet written back     *)
(*   "skipped", "downloaded", "notfound", "httperror": returned             *)
(*   "raised"      ended with an exception, kept by the future              *)

Future(path, overwrite) ==
    [path |-> path, overwrite |-> overwrite, st |-> "queued", tmp |-> 0]

Finished == {"skipped", "downloaded", "notfound", "httperror", "raised"}

IsRunning(f) == f.st \notin Finished \cup {"queued"}

AllFinished == \A i \in 1..Len(futures) : futures[i].st \in Finished

\* A mutant of SkipBranch: the file is fetched again although it exists.
SkipBranchNever(f) == FALSE

\* if os.path.exists(full_path) and not overwrite
SkipBranch(f) == Exists(f.path) /\ ~f.overwrite

\* A worker takes the oldest queued call and runs it up to the existence
\* test (os.makedirs changes no file); on the skip branch, up to the read
\* of self.skipped_count += 1.
DF_Start(i) ==
    /\ futures[i].st = "queued"
    /\ \A j \in 1..(i - 1) : futures[j].st # "queued"
    /\ Cardinality({j \in 1..Len(futures) : IsRunning(futures[j])}) < args.threads
    /\ futures' = IF SkipBranch(futures[i])
                  THEN [futures EXCEPT ![i].st = "skip_store",
                                       ![i].tmp = skipped_count]
                  ELSE [futures EXCEPT ![i].st = "request"]
    /\ UNCHANGED <<wvars, dvars, lvars, args, run, fs_before, pvars, rvars>>

\* self.skipped_count += 1: the write; then return.
DF_SkipStore(i) ==
    /\ futures[i].st = "skip_store"
    /\ skipped_count' = futures[i].tmp + 1
    /\ futures' = [futures EXCEPT ![i].st = "skipped", ![i].tmp = 0]
    /\ UNCHANGED <<wvars, downloaded_files, downloaded_count, lvars, args, run,
                   fs_before, pvars, rvars>>

\* A mutant of AfterResponse: a 404 is counted as a skipped file.
AfterResponseCounting(status) ==
    IF status = "ok" THEN "write"
    ELSE IF status = "notfound" THEN "skip_store"
    ELSE IF status = "error" THEN "httperror"
    ELSE "raised"

\* A mutant of AfterResponse: the body of a 404 answer is saved as the file.
AfterResponseSaving(status) ==
    IF status \in {"ok", "notfound"} THEN "write"
    ELSE IF status = "error" THEN "httperror"
    ELSE "raised"

\* requests.get and response.raise_for_status(): an HTTPError is caught and
\* logged (404 or not), any other exception leaves download_file.
AfterResponse(status) ==
    IF status = "ok" THEN "write"
    ELSE IF status = "notfound" THEN "notfound"
    ELSE IF status = "error" THEN "httperror"
    ELSE "raised"

DF_Request(i) ==
    /\ futures[i].st = "request"
    /\ \E a \in FetchOk \cup FetchFaults :
           /\ Asked(futures[i].path, a, FetchOk, FetchFaults)
           /\ futures' = [futures EXCEPT ![i].st = AfterResponse(a.status)]
    /\ UNCHANGED <<fs, dvars, lvars, args, run, fs_before, pvars, rvars>>

\* open(full_path, 'wb'), the chunks written, downloaded_files.append, and
\* the read of self.downloaded_count += 1.
DF_Write(i) ==
    /\ futures[i].st = "write"
    /\ fs' = (futures[i].path :> "body") @@ fs
    /\ downloaded_files' = downloaded_files (+) SetToBag({futures[i].path})
    /\ futures' = [futures EXCEPT ![i].st = "inc_store", ![i].tmp = downloaded_count]
    /\ UNCHANGED <<remote, faults, downloaded_count, skipped_count, lvars, args,
                   run, fs_before, pvars, rvars>>

\* self.downloaded_count += 1: the write; then return.
DF_IncStore(i) ==
    /\ futures[i].st = "inc_store"
    /\ downloaded_count' = futures[i].tmp + 1
    /\ futures' = [futures EXCEPT ![i].st = "downloaded", ![i].tmp = 0]
    /\ UNCHANGED <<wvars, downloaded_files, skipped_count, lvars, args, run,
                   fs_before, pvars, rvars>>

download_file(i) ==
    \/ DF_Start(i)
    \/ DF_SkipStore(i)
    \/ DF_Request(i)
    \/ DF_Write(i)
    \/ DF_IncStore(i)

-----------------------------------------------------------------------------
(* RepositoryManage.mirror_repository: the main thread *)

Dist == args.distributions[di]
Comp == args.components[ci]
Arch == args.architectures[ai]

\* The loops go on after the last package of an architecture.
NextArch ==
    IF ai < Len(args.architectures)
    THEN /\ mpc' = "contents" /\ ai' = ai + 1 /\ UNCHANGED <<di, ci>>
    ELSE IF ci < Len(args.components)
    THEN /\ mpc' = "i18n" /\ ci' = ci + 1 /\ ai' = 1 /\ UNCHANGED di
    ELSE IF di < Len(args.distributions)
    THEN /\ mpc' = "release" /\ di' = di + 1 /\ ci' = 1 /\ ai' = 1
    ELSE /\ mpc' = "join" /\ UNCHANGED <<di, ci, ai>>

\* executor.submit(download_file, .../dists/{distribution}/{cert}, ..., True)
M_SubmitRelease ==
    /\ mpc = "release"
    /\ futures' = Append(futures, Future(ReleasePath(Dist, Certs[ki]), TRUE))
    /\ IF ki < Len(Certs)
       THEN ki' = ki + 1 /\ UNCHANGED mpc
       ELSE ki' = 1 /\ mpc' = "i18n"
    /\ UNCHANGED <<wvars, dvars, wget_runs, di, ci, ai, packages_info, exc, result, args,
                   run, fs_before, pvars, rvars>>

M_SyncI18n ==
    /\ mpc = "i18n"
    /\ download_directory(I18nDir(Dist, Comp), SyncOk, SyncFaults)
    /\ mpc' = "source"
    /\ UNCHANGED <<downloaded_count, skipped_count, futures, di, ci, ai, ki,
                   packages_info, exc, result, args, run, fs_before, pvars, rvars>>

M_SyncSource ==
    /\ mpc = "source"
    /\ download_directory(SourceDir(Dist, Comp), SyncOk, SyncFaults)
    /\ mpc' = "contents"
    /\ UNCHANGED <<downloaded_count, skipped_count, futures, di, ci, ai, ki,
                   packages_info, exc, result, args, run, fs_before, pvars, rvars>>

\* executor.submit(download_file, .../Contents-{arch}.gz, ..., True)
M_SubmitContents ==
    /\ mpc = "contents"
    /\ futures' = Append(futures, Future(ContentsPath(Dist, Comp, Arch), TRUE))
    /\ mpc' = "sync_bin"
    /\ UNCHANGED <<wvars, dvars, wget_runs, di, ci, ai, ki, packages_info, exc, result,
                   args, run, fs_before, pvars, rvars>>

M_SyncBinary ==
    /\ mpc = "sync_bin"
    /\ download_directory(BinaryDir(Dist, Comp, Arch), BinaryOk, BinaryFaults)
    /\ mpc' = "sync_inst"
    /\ UNCHANGED <<downloaded_count, skipped_count, futures, di, ci, ai, ki,
                   packages_info, exc, result, args, run, fs_before, pvars, rvars>>

M_SyncInstaller ==
    /\ mpc = "sync_inst"
    /\ download_directory(InstallerDir(Dist, Comp, Arch), SyncOk, SyncFaults)
    /\ mpc' = "list"
    /\ UNCHANGED <<downloaded_count, skipped_count, futures, di, ci, ai, ki,
                   packages_info, exc, result, args, run, fs_before, pvars, rvars>>

\* pack_files = list_files_in_folder(save_path), in any order;
\* packages_info = find_and_extract_packages(pack_files);
\* len(packages_info), a TypeError when packages_info is None.
M_List ==
    /\ mpc = "list"
    /\ LET pack_files == FilesUnder(fs, BinaryDir(Dist, Comp, Arch))
           indexes == {p \in pack_files : IsIndexName(p[Len(p)])}
       IN  \E first \in indexes \cup {<<"-">>} :
             /\ first = <<"-">> <=> indexes = {}
             /\ LET r == find_and_extract_packages(pack_files, first) IN
                IF r.raised # "none"
                THEN /\ exc' = r.raised /\ mpc' = "join"
                     /\ UNCHANGED <<di, ci, ai, ki, packages_info>>
                ELSE IF r.value = None
                THEN /\ exc' = "TypeError" /\ mpc' = "join"
                     /\ UNCHANGED <<di, ci, ai, ki, packages_info>>
                ELSE /\ packages_info' = r.value[1]
                     /\ ki' = 1
                     /\ UNCHANGED exc
                     /\ IF r.value[1] = <<>>
                        THEN NextArch
                        ELSE mpc' = "pkg" /\ UNCHANGED <<di, ci, ai>>
    /\ UNCHANGED <<wvars, dvars, wget_runs, futures, result, args, run, fs_before, pvars, rvars>>

\* A mutant of PackageOverwrite: package files are fetched with overwrite=True.
PackageOverwriteTrue == TRUE

\* The overwrite argument of the download_file calls for package files.
PackageOverwrite == FALSE

\* for index, package in enumerate(packages_info, start=1):
\*     executor.submit(download_file, downloadlink, filesave, False)
M_SubmitPackage ==
    /\ mpc = "pkg"
    /\ futures' = Append(futures, Future(FilenamePath(packages_info[ki]),
                                         PackageOverwrite))
    /\ IF ki < Len(packages_info)
       THEN ki' = ki + 1 /\ UNCHANGED <<mpc, di, ci, ai>>
       ELSE ki' = 1 /\ NextArch
    /\ UNCHANGED <<wvars, dvars, wget_runs, packages_info, exc, result, args, run,
                   fs_before, pvars, rvars>>

\* The with block is left, normally or by an exception: shutdown waits for
\* every submitted call. An exception then leaves mirror_repository;
\* otherwise future.result() raises what a call ended with, if any did.
M_Return ==
    /\ mpc = "join"
    /\ AllFinished
    /\ mpc' = "end"
    /\ result' = IF exc # "none" THEN exc
                 ELSE IF \E i \in 1..Len(futures) : futures[i].st = "raised"
                 THEN "ConnectionError" ELSE "ok"
    /\ UNCHANGED <<wvars, dvars, wget_runs, futures, di, ci, ai, ki, packages_info, exc,
                   args, run, fs_before, pvars, rvars>>

mirror_repository ==
    \/ M_SubmitRelease
    \/ M_SyncI18n
    \/ M_SyncSource
    \/ M_SubmitContents
    \/ M_SyncBinary
    \/ M_SyncInstaller
    \/ M_List
    \/ M_SubmitPackage
    \/ M_Return

-----------------------------------------------------------------------------
(* The program run on an empty local tree *)

\* main(): RepositoryManage(args) with a new Downloader, mirror_repository().
Start ==
    /\ downloaded_files = EmptyBag /\ downloaded_count = 0 /\ skipped_count = 0
    /\ futures = <<>>
    /\ mpc = "release" /\ di = 1 /\ ci = 1 /\ ai = 1 /\ ki = 1
    /\ packages_info = <<>> /\ exc = "none" /\ result = "running"
    /\ wget_runs = <<>>

\* remove_repository is not run.
RemoveIdle == file_list = <<>> /\ user_input = <<>> /\ dir_order = <<>>

ParserIdle ==
    /\ data = <<>> /\ idx = 1 /\ packages = <<>> /\ current_package = <<>>
    /\ ppc = "idle"

Init ==
    /\ ParserIdle
    /\ args \in ArgsChoices
    /\ fs = <<>> /\ remote = <<>> /\ faults = 0
    /\ Start
    /\ RemoveIdle
    /\ run = 1 /\ fs_before = <<>>

Next ==
    \/ mirror_repository
    \/ \E i \in 1..Len(futures) : download_file(i)

Spec == Init /\ [][Next]_vars

-----------------------------------------------------------------------------
(* Statements about a mirroring run *)

\* The (distribution, component, architecture) triples, by their positions
\* in the selector lists.
Triples ==
    {<<d, c, a>> : d \in 1..Len(args.distributions),
                   c \in 1..Len(args.components),
                   a \in 1..Len(args.architectures)}

BinaryDirOf(t) ==
    BinaryDir(args.distributions[t[1]], args.components[t[2]],
              args.architectures[t[3]])

\* Triple t comes no later than triple u in the order of the loops.
NotAfter(t, u) ==
    \/ t[1] < u[1]
    \/ t[1] = u[1] /\ t[2] < u[2]
    \/ t[1] = u[1] /\ t[2] = u[2] /\ t[3] <= u[3]

LastTriple ==
    <<Len(args.distributions), Len(args.components), Len(args.architectures)>>

\* The run is over and had listed the binary-{arch}/ directory of triple t.
Listed(t) == mpc = "end" /\ NotAfter(t, <<di, ci, ai>>)

\* The package index files in the local binary-{arch}/ directory of t.
LocalIndexes(t) ==
    {p \in FilesUnder(fs, BinaryDirOf(t)) : IsIndexName(p[Len(p)])}

\* The records of the local package index of triple t.
LocalRecords(t) ==
    IF LocalIndexes(t) = {} THEN <<>>
    ELSE LET r == find_and_extract_packages(LocalIndexes(t),
                                            CHOOSE p \in LocalIndexes(t) : TRUE)
         IN  IF r.raised # "none" \/ r.value = None THEN <<>> ELSE r.value[1]

WithFilename(records) ==
    Len(SelectSeq(records, LAMBDA package : DictHas(package, <<"Filename">>)))

RECURSIVE SumWithFilename(_)
SumWithFilename(ts) ==
    IF ts = {} THEN 0
    ELSE LET t == CHOOSE x \in ts : TRUE
         IN  WithFilename(LocalRecords(t)) + SumWithFilename(ts \ {t})

\* The PackageFileFetch tasks: the download_file calls for the Filename of a
\* record (every other call is for a path under dists/).
PackageFetches ==
    {i \in 1..Len(futures) : futures[i].path = <<>> \/ futures[i].path[1] # "dists"}

\* C4: a run that planned every triple has submitted as many PackageFileFetch
\* tasks as its package indexes hold records with a Filename field, and none
\* for a record without one (none for the path "None").
C4_OneFetchPerFilename ==
    result = "ok" =>
        /\ Cardinality(PackageFetches) = SumWithFilename(Triples)
        /\ \A i \in PackageFetches : ~futures[i].overwrite
        /\ \A i \in PackageFetches : futures[i].path # <<"None">>

\* C5: when the binary-{arch}/ directory of a triple holds no package index
\* after its syncs, the run still plans the remaining triples and completes
\* normally.
C5_NoIndexIsNotFatal ==
    \A t \in Triples :
        (Listed(t) /\ LocalIndexes(t) = {}) =>
            (result = "ok" /\ <<di, ci, ai>> = LastTriple)

\* C6: a download_file call with overwrite=False whose destination exists
\* asks the remote for nothing and changes neither downloaded_count,
\* downloaded_files nor the local tree; it returns having set skipped_count
\* to one more than it read, which with one worker is one more than it was.
C6_SkipCountsOnce ==
    [][\A i \in 1..Len(futures) :
         /\ (futures[i].st = "queued" /\ futures'[i].st # "queued"
             /\ Exists(futures[i].path) /\ ~futures[i].overwrite)
            => /\ futures'[i].st = "skip_store"
               /\ futures'[i].tmp = skipped_count
               /\ UNCHANGED <<fs, remote, downloaded_count, downloaded_files,
                              skipped_count>>
         /\ (futures[i].st = "skip_store" /\ futures'[i].st # "skip_store")
            => /\ futures'[i].st = "skipped"
               /\ skipped_count' = futures[i].tmp + 1
               /\ args.threads = 1 => skipped_count' = skipped_count + 1
               /\ UNCHANGED <<fs, remote, downloaded_count, downloaded_files>>
      ]_vars

\* A call has returned on the skip branch and is the one counted.
C6_Witness ==
    /\ skipped_count = 1
    /\ \E i \in PackageFetches : futures[i].st = "skipped"

\* C8: when a fetch of a run failed with something else than a 404, every
\* other task has still run to its end, the run has not ended with that
\* error, and the result of the run counts the failure.
SyncResult ==
    [downloaded |-> downloaded_count, skipped |-> skipped_count,
     files |-> downloaded_files]

C8_FailureIsolated ==
    LET failed == {i \in 1..Len(futures) : futures[i].st \in {"httperror", "raised"}}
    IN  (mpc = "end" /\ failed # {}) =>
            /\ AllFinished
            /\ result = "ok"
            /\ "failed" \in DOMAIN SyncResult
            /\ SyncResult.failed = Cardinality(failed)

\* C9: a fetch answered with a 404 returns at once, having changed neither
\* the counters, downloaded_files nor the local tree; and a run in which
\* nothing else went wrong ends normally.
C9_NotFoundIsAMiss ==
    /\ [][\A i \in 1..Len(futures) :
            (/\ futures[i].st = "request" /\ futures'[i].st # "request"
             /\ remote'[futures[i].path].status = "notfound")
            => /\ futures'[i].st = "notfound"
               /\ UNCHANGED <<fs, downloaded_count, skipped_count, downloaded_files>>
         ]_vars
    /\ []((/\ mpc = "end"
           /\ exc = "none"
           /\ \A i \in 1..Len(futures) :
                 futures[i].path \in DOMAIN remote
                     => remote[futures[i].path].status \in {"ok", "notfound"})
          => result = "ok")

\* A run with a 404 has ended.
C9_Witness ==
    /\ result = "ok"
    /\ \E i \in 1..Len(futures) : futures[i].st = "notfound"
    /\ downloaded_count + skipped_count = Len(futures) - 1

\* C10: when the compressed package index of a triple does not decode, the
\* run still plans the remaining triples and completes.
C10_BadIndexIsNotFatal ==
    \A t \in Triples :
        (Listed(t) /\ \E p \in LocalIndexes(t) : IsCompressed(p[Len(p)]) /\ fs[p] = "bad")
            => (result = "ok" /\ <<di, ci, ai>> = LastTriple)

-----------------------------------------------------------------------------
(* The program run up to MaxRuns times in a row, with the same command     *)
(* line, the local tree left as it is between the runs                     *)

ArgsTwice ==
    { [distributions |-> <<"stable">>, components |-> <<"main">>,
       architectures |-> <<"amd64">>, threads |-> 2] }

InitTwice ==
    /\ ParserIdle
    /\ args \in ArgsTwice
    /\ fs = <<>> /\ remote = <<>> /\ faults = 0
    /\ Start
    /\ RemoveIdle
    /\ run = 1 /\ fs_before = <<>>

\* main() again: a new RepositoryManage and Downloader, mirror_repository().
Rerun ==
    /\ mpc = "end"
    /\ run < MaxRuns
    /\ run' = run + 1
    /\ fs_before' = fs
    /\ downloaded_files' = EmptyBag /\ downloaded_count' = 0 /\ skipped_count' = 0
    /\ futures' = <<>>
    /\ mpc' = "release" /\ di' = 1 /\ ci' = 1 /\ ai' = 1 /\ ki' = 1
    /\ packages_info' = <<>> /\ exc' = "none" /\ result' = "running"
    /\ wget_runs' = <<>>
    /\ UNCHANGED <<wvars, args, pvars, rvars>>

NextTwice ==
    \/ mirror_repository
    \/ \E i \in 1..Len(futures) : download_file(i)
    \/ Rerun

SpecTwice == InitTwice /\ [][NextTwice]_vars

\* C7 as stated: at the end of a second run every PackageFileFetch task
\* was skipped and the local files are those the first run left.
C7_SecondRunAllSkipped ==
    (run = 2 /\ mpc = "end") =>
        /\ \A i \in PackageFetches : futures[i].st = "skipped"
        /\ DOMAIN fs = DOMAIN fs_before

\* C7, amended: at the end of a run that follows another, every
\* PackageFileFetch task whose destination the run before had left on disk
\* was skipped, none has downloaded a file, and the local files are those
\* the run before left.
C7_SecondRunFetchesNothingNew ==
    (run >= 2 /\ mpc = "end") =>
        /\ \A i \in PackageFetches :
              /\ futures[i].path \in DOMAIN fs_before => futures[i].st = "skipped"
              /\ futures[i].st # "downloaded"
        /\ DOMAIN fs = DOMAIN fs_before

\* A second run has ended with one package file skipped and another, which
\* the remote does not have, asked for again.
C7_Witness ==
    /\ run = 2 /\ mpc = "end"
    /\ \E i \in PackageFetches : futures[i].st = "skipped"
    /\ \E i \in PackageFetches : futures[i].st = "notfound"

-----------------------------------------------------------------------------
(* Statements about the tasks of a run *)

\* The calls and wget runs of each kind, by the shape of their path.
ReleaseFetches ==
    {i \in 1..Len(futures) :
        /\ Len(futures[i].path) = 3 /\ futures[i].path[1] = "dists"
        /\ futures[i].path[3] \in {"InRelease", "Release", "Release.gpg"}}

ContentsFetches ==
    {i \in 1..Len(futures) :
        /\ Len(futures[i].path) = 5 /\ futures[i].path[1] = "dists"
        /\ futures[i].path[4] = "Contents"}

ComponentSyncs ==
    {i \in 1..Len(wget_runs) :
        Len(wget_runs[i]) = 4 /\ wget_runs[i][4] \in {"i18n", "source"}}

ArchitectureSyncs ==
    {i \in 1..Len(wget_runs) :
        \/ Len(wget_runs[i]) = 5 /\ wget_runs[i][4] = "binary"
        \/ Len(wget_runs[i]) = 6 /\ wget_runs[i][4] = "debian-installer"}

-----------------------------------------------------------------------------
(* RepositoryManage.remove_repository, run by main() under --remove. Its   *)
(* locals distribution, component, arch and packages_info are di, ci, ai   *)
(* and packages_info; mpc is its position:                                 *)
(*   "r_list"    in the loops that build file_list                         *)
(*   "r_input"   at input()                                                *)
(*   "r_erase"   in the loop over file_list, at file_list[ki]              *)
(*   "r_rmtree"  at shutil.rmtree                                          *)
(*   "end"       returned, or left by an exception                         *)

\* The command lines a removal is run with.
RemoveArgs ==
    { [distributions |-> <<"stable">>, components |-> <<"main">>,
       architectures |-> <<"amd64">>, threads |-> 1],
      [distributions |-> <<"stable", "testing">>, components |-> <<"main">>,
       architectures |-> <<"amd64">>, threads |-> 1] }

\* What the local tree may hold of distribution d: nothing; its release file
\* and a package index, plain, compressed, or both.
DistTrees(d) ==
    LET rel == ReleasePath(d, "InRelease") :> "body"
        bin == BinaryDir(d, "main", "amd64")
    IN  { <<>>,
          rel @@ ((bin \o <<"Packages">>) :> "T1"),
          rel @@ ((bin \o <<"Packages.gz">>) :> "T2"),
          rel @@ ((bin \o <<"Packages">>) :> "T1")
              @@ ((bin \o <<"Packages.gz">>) :> "T2") }

\* The package files the local tree may hold.
PoolTrees == { <<>>, <<"p1">> :> "body", (<<"p1">> :> "body") @@ (<<"p2">> :> "body") }

LocalTrees ==
    { a @@ b @@ c : a \in DistTrees("stable"), b \in DistTrees("testing"),
                    c \in PoolTrees }

\* os.listdir returns the names of a directory in an order of its own.
ListOrders ==
    { <<"Packages", "Packages.xz", "Packages.gz">>,
      <<"Packages.gz", "Packages.xz", "Packages">> }

\* The index file of `indexes` that the listing returns first.
ListedFirst(indexes) ==
    LET Pos(p) == CHOOSE i \in 1..Len(dir_order) : dir_order[i] = p[Len(p)]
    IN  IF indexes = {} THEN <<"-">>
        ELSE CHOOSE p \in indexes : \A q \in indexes : Pos(p) <= Pos(q)

\* What the user may type at the prompt.
Typed ==
    { <<"y">>, <<"Y">>, <<" ", "y", " ">>, <<"n">>, <<"y", "e", "s">>, <<>> }

\* str.lower, character by character
lower(s) == [i \in 1..Len(s) |-> IF s[i] = "Y" THEN "y" ELSE s[i]]

\* A mutant of Confirmed: everything but n is taken for a yes.
ConfirmedUnlessNo(typed) == lower(strip(typed)) # <<"n">>

\* user_input = input().strip().lower(); anything that is not y or n is n;
\* if user_input == 'y'
Confirmed(typed) ==
    LET u == lower(strip(typed))
        v == IF u \notin {<<"y">>, <<"n">>} THEN <<"n">> ELSE u
    IN  v = <<"y">>

\* A mutant of ErasePath: the path is made from the Package field.
ErasePathOfPackage(package) ==
    LET f == DictGetOpt(package, <<"Package">>)
    IN  IF f = None THEN <<"None">> ELSE f[1]

\* f"{rootpath}/{url}/{inpath}/{package.get('Filename')}"
ErasePath(package) ==
    LET f == DictGetOpt(package, <<"Filename">>)
    IN  IF f = None THEN <<"None">> ELSE f[1]

\* The loops of remove_repository go on after an architecture.
R_NextArch ==
    IF ai < Len(args.architectures)
    THEN /\ ai' = ai + 1 /\ UNCHANGED <<mpc, di, ci>>
    ELSE IF ci < Len(args.components)
    THEN /\ ci' = ci + 1 /\ ai' = 1 /\ UNCHANGED <<mpc, di>>
    ELSE IF di < Len(args.distributions)
    THEN /\ di' = di + 1 /\ ci' = 1 /\ ai' = 1 /\ UNCHANGED mpc
    ELSE /\ mpc' = "r_input" /\ UNCHANGED <<di, ci, ai>>

\* One architecture: list_files_in_folder, find_and_extract_packages,
\* len(packages_info) (a TypeError on None), file_list.append per record.
R_List ==
    /\ mpc = "r_list"
    /\ LET pack_files == FilesUnder(fs, BinaryDir(Dist, Comp, Arch))
           indexes == {p \in pack_files : IsIndexName(p[Len(p)])}
           r == find_and_extract_packages(pack_files, ListedFirst(indexes))
       IN  IF r.raised # "none" \/ r.value = None
           THEN /\ exc' = IF r.raised # "none" THEN r.raised ELSE "TypeError"
                /\ result' = exc'
                /\ mpc' = "end"
                /\ UNCHANGED <<di, ci, ai, packages_info, file_list>>
           ELSE /\ packages_info' = r.value[1]
                /\ file_list' = file_list \o
                       [k \in 1..Len(r.value[1]) |-> ErasePath(r.value[1][k])]
                /\ R_NextArch
                /\ UNCHANGED <<exc, result>>
    /\ UNCHANGED <<wvars, dvars, futures, ki, wget_runs, args, run, fs_before,
                   user_input, dir_order, pvars>>

\* print(...); user_input = input()...; the else branch returns.
R_Input ==
    /\ mpc = "r_input"
    /\ \E typed \in Typed :
          /\ user_input' = typed
          /\ IF Confirmed(typed)
             THEN /\ mpc' = IF file_list = <<>> THEN "r_rmtree" ELSE "r_erase"
                  /\ UNCHANGED result
             ELSE mpc' = "end" /\ result' = "ok"
    /\ ki' = 1
    /\ UNCHANGED <<wvars, dvars, futures, di, ci, ai, packages_info, exc,
                   wget_runs, args, run, fs_before, file_list, dir_order, pvars>>

\* os.remove(file_path): the file is removed, or an exception is caught
\* (FileNotFoundError when it does not exist, PermissionError or another
\* when it cannot be removed) and the loop goes on.
R_Erase ==
    /\ mpc = "r_erase"
    /\ \/ /\ file_list[ki] \in DOMAIN fs
          /\ fs' = [p \in DOMAIN fs \ {file_list[ki]} |-> fs[p]]
       \/ UNCHANGED fs
    /\ IF ki < Len(file_list)
       THEN ki' = ki + 1 /\ UNCHANGED mpc
       ELSE ki' = 1 /\ mpc' = "r_rmtree"
    /\ UNCHANGED <<remote, faults, dvars, futures, di, ci, ai, packages_info,
                   exc, result, wget_runs, args, run, fs_before, rvars, pvars>>

\* shutil.rmtree(.../dists/{distribution}), after the loops: distribution
\* is the last one of the selectors. A FileNotFoundError when it is absent.
R_Rmtree ==
    /\ mpc = "r_rmtree"
    /\ LET dir == <<"dists", Dist>> IN
       IF FilesUnder(fs, dir) = {}
       THEN exc' = "FileNotFoundError" /\ result' = exc' /\ UNCHANGED fs
       ELSE /\ fs' = [p \in DOMAIN fs \ FilesUnder(fs, dir) |-> fs[p]]
            /\ result' = "ok"
            /\ UNCHANGED exc
    /\ mpc' = "end"
    /\ UNCHANGED <<remote, faults, dvars, futures, di, ci, ai, ki,
                   packages_info, wget_runs, args, run, fs_before, rvars, pvars>>

remove_repository ==
    \/ R_List
    \/ R_Input
    \/ R_Erase
    \/ R_Rmtree

\* main() under --remove, on a local tree left by earlier runs.
InitRemove ==
    /\ ParserIdle
    /\ args \in RemoveArgs
    /\ fs \in LocalTrees
    /\ fs_before = fs
    /\ remote = <<>> /\ faults = 0
    /\ downloaded_files = EmptyBag /\ downloaded_count = 0 /\ skipped_count = 0
    /\ futures = <<>> /\ wget_runs = <<>>
    /\ mpc = "r_list" /\ di = 1 /\ ci = 1 /\ ai = 1 /\ ki = 1
    /\ packages_info = <<>> /\ exc = "none" /\ result = "running"
    /\ file_list = <<>> /\ user_input = <<>>
    /\ dir_order \in ListOrders
    /\ run = 1

NextRemove == remove_repository

SpecRemove == InitRemove /\ [][NextRemove]_vars

-----------------------------------------------------------------------------
(* Statements about a removal *)

\* The user typed the letter y, in either case, with or without blanks
\* around it.
SaysYes(typed) ==
    SelectSeq(typed, LAMBDA c : c # " ") \in {<<"y">>, <<"Y">>}

\* C12: as long as the answer at the prompt is not a yes (nothing typed yet,
\* n, the empty line, or any other text), the local tree is the one
\* remove_repository found: no file and no directory has been deleted.
C12_NoConfirmationNoDeletion ==
    ~SaysYes(user_input) => fs = fs_before

\* The removal has ended on an answer that is not y although there were
\* files to erase.
C12_Witness ==
    /\ mpc = "end" /\ result = "ok"
    /\ user_input = <<"y", "e", "s">>
    /\ \E k \in 1..Len(file_list) : file_list[k] \in DOMAIN fs

\* C13: after a confirmed removal that ran to its end, nothing is left under
\* dists/{distribution} of any distribution of the selectors.
C13_EveryDistributionRemoved ==
    (mpc = "end" /\ result = "ok" /\ SaysYes(user_input)) =>
        \A k \in 1..Len(args.distributions) :
            FilesUnder(fs, <<"dists", args.distributions[k]>>) = {}

\* The triple the loops of mirror_repository reach n-th.
TripleAt(n) ==
    LET nC == Len(args.components)
        nA == Len(args.architectures)
    IN  <<((n - 1) \div (nC * nA)) + 1,
          (((n - 1) \div nA) % nC) + 1,
          ((n - 1) % nA) + 1>>

\* The destinations mirror_repository gives the package fetches of the n-th
\* and later triples on the local tree as it is (list_files_in_folder,
\* find_and_extract_packages, filesave), and whether it is left by an
\* exception on the way.
RECURSIVE MirrorPlan(_)
MirrorPlan(n) ==
    IF n > Cardinality(Triples) THEN [aborted |-> FALSE, list |-> <<>>]
    ELSE LET pack_files == FilesUnder(fs, BinaryDirOf(TripleAt(n)))
             indexes == {p \in pack_files : IsIndexName(p[Len(p)])}
             r == find_and_extract_packages(pack_files, ListedFirst(indexes))
         IN  IF r.raised # "none" \/ r.value = None
             THEN [aborted |-> TRUE, list |-> <<>>]
             ELSE LET rest == MirrorPlan(n + 1)
                  IN  [aborted |-> rest.aborted,
                       list |-> [k \in 1..Len(r.value[1]) |->
                                    FilenamePath(r.value[1][k])] \o rest.list]

\* C14: when remove_repository has built file_list (or was left by an
\* exception while building it), file_list is, element for element, the list
\* of destinations mirror_repository gives its package fetches on the same
\* selectors and local tree; and no step of remove_repository asks the
\* remote for anything or runs wget.
C14_SamePlan ==
    /\ []((mpc = "r_input" \/ (mpc = "end" /\ user_input = <<>> /\ exc # "none"))
            => /\ MirrorPlan(1).aborted = (exc # "none")
               /\ file_list = MirrorPlan(1).list)
    /\ [][remote' = remote /\ wget_runs' = wget_runs /\ futures' = futures]_vars

\* file_list has been built from an index with a record without Filename.
C14_Witness ==
    /\ mpc = "r_input"
    /\ Len(file_list) >= 3
    /\ \E k \in 1..Len(file_list) : file_list[k] = <<"None">>

-----------------------------------------------------------------------------
(* Statements about the workers *)

\* The download_file calls that ended in state st.
Ended(st) == {i \in 1..Len(futures) : futures[i].st = st}

\* C15: when every task of a run has finished, downloaded_count is the
\* number of calls that completed a fetch and skipped_count the number of
\* calls that took the skip branch.
C15_NoLostIncrement ==
    (mpc = "end" /\ AllFinished) =>
        /\ downloaded_count = Cardinality(Ended("downloaded"))
        /\ skipped_count = Cardinality(Ended("skipped"))

\* Two calls for the same destination on two workers: the same architecture
\* given twice, two threads.
ArgsShared ==
    { [distributions |-> <<"stable">>, components |-> <<"main">>,
       architectures |-> <<"amd64", "amd64">>, threads |-> 2] }

\* The remote of these runs answers every request with success: it has no
\* fault left to give.
InitShared ==
    /\ ParserIdle
    /\ args \in ArgsShared
    /\ fs = <<>> /\ remote = <<>> /\ faults = MaxFaults
    /\ Start
    /\ RemoveIdle
    /\ run = 1 /\ fs_before = <<>>

\* One run of the mirror, of either kind.
SpecPool == (Init \/ InitShared) /\ [][Next]_vars

\* The files the remote has delivered: the paths it answered a fetch of
\* with success, and the files of the directories wget synced.
Delivered ==
    {p \in DOMAIN remote :
        /\ remote[p].status = "ok"
        /\ \E i \in 1..Len(futures) : futures[i].path = p}
    \cup UNION { {wget_runs[i] \o <<n>> : n \in DOMAIN remote[wget_runs[i]].files} :
                    i \in {j \in 1..Len(wget_runs) : remote[wget_runs[j]].status = "ok"} }

\* C16: when a run has ended, the local files are those the run found plus
\* those the remote delivers for the tasks of the run, whatever the order
\* and interleaving the workers ran the tasks in; every task either found
\* its destination or asked the remote for it.
C16_FileSetIsScheduleFree ==
    mpc = "end" =>
        /\ \A i \in 1..Len(futures) :
              futures[i].path \in DOMAIN fs_before \cup DOMAIN remote
        /\ DOMAIN fs = DOMAIN fs_before \cup Delivered

\* Two package fetches for the same destination ran on two workers at once
\* and both downloaded the file.
C16_Witness ==
    /\ mpc = "end"
    /\ \E i, j \in PackageFetches :
          /\ i # j /\ futures[i].path = futures[j].path
          /\ futures[i].st = "downloaded" /\ futures[j].st = "downloaded"

\* The syncs of binary-{arch}/ and debian-installer/binary-{arch}/ of the
\* current triple are the last two wget runs that came to their end, and
\* the files wget got of binary-{arch}/ are in the local tree.
SyncsDone ==
    LET n == Len(wget_runs)
        dir == BinaryDir(Dist, Comp, Arch)
    IN  /\ n >= 2
        /\ wget_runs[n - 1] = dir
        /\ wget_runs[n] = InstallerDir(Dist, Comp, Arch)
        /\ remote[dir].status = "ok" =>
              \A f \in DOMAIN remote[dir].files : (dir \o <<f>>) \in DOMAIN fs

\* C17: the step that lists the binary-{arch}/ directory of a triple and
\* every step that submits a package fetch of the triple are taken with both
\* directory syncs of the triple completed.
C17_SyncsBeforeListing ==
    [][/\ (mpc = "list" /\ mpc' # "list") => SyncsDone
       /\ (/\ Len(futures') = Len(futures) + 1
           /\ Len(futures') \in {i \in 1..Len(futures') :
                                    futures'[i].path = <<>> \/ futures'[i].path[1] # "dists"})
          => SyncsDone
      ]_vars

\* The package fetches of a second architecture are being submitted.
C17_Witness ==
    /\ mpc = "pkg" /\ ai = 2 /\ ki = 2
    /\ Cardinality(PackageFetches) >= 3

\* C18: mirror_repository has returned or raised only with every submitted
\* call finished, and when a call ended with an exception of its own, that
\* exception is what mirror_repository raised to its caller.
C18_WaitsAndSurfaces ==
    mpc = "end" =>
        /\ AllFinished
        /\ Ended("raised") # {} => result = "ConnectionError"

\* The download_file calls a worker of the pool is executing.
Running == {i \in 1..Len(futures) : IsRunning(futures[i])}

\* C19: the tasks in progress, the calls the workers are executing and the
\* directory sync wget is running, are never more than args.threads.
C19_PoolBoundsAllTasks ==
    /\ [](Cardinality(Running) <= args.threads)
    /\ [][wget_runs' # wget_runs => Cardinality(Running) + 1 <= args.threads]_vars

-----------------------------------------------------------------------------
(* Statements about the choice of the package index *)

\* The index file of `indexes` that comes first in the priority
\* Packages, Packages.xz, Packages.gz.
Preferred(indexes) ==
    LET Rank(p) == CASE p[Len(p)] = "Packages" -> 1
                     [] p[Len(p)] = "Packages.xz" -> 2
                     [] OTHER -> 3
    IN  CHOOSE p \in indexes : \A q \in indexes : Rank(p) <= Rank(q)

\* C20: the step that lists a binary-{arch}/ directory holding one or more
\* of Packages, Packages.xz and Packages.gz reads the index the priority
\* names, whatever the order of the listing: packages_info are its records.
C20_IndexPriority ==
    [][(mpc = "r_list" /\ <<mpc, di, ci, ai, exc>>' # <<mpc, di, ci, ai, exc>>) =>
          LET pack_files == FilesUnder(fs, BinaryDir(Dist, Comp, Arch))
              indexes == {p \in pack_files : IsIndexName(p[Len(p)])}
          IN  indexes # {} =>
                 LET r == find_and_extract_packages(pack_files, Preferred(indexes))
                 IN  /\ exc' = r.raised
                     /\ r.raised = "none" => packages_info' = r.value[1]
      ]_vars

-----------------------------------------------------------------------------
(* The program run on a local tree that an earlier run left, against a     *)
(* remote that may have changed since                                      *)

\* The release file and the Contents file of the architecture are there,
\* with the content they had then.
StaleTree ==
    (ReleasePath("stable", "InRelease") :> "old")
        @@ (ContentsPath("stable", "main", "amd64") :> "old")

InitStale ==
    /\ ParserIdle
    /\ args \in ArgsTwice
    /\ fs = StaleTree /\ remote = <<>> /\ faults = 0
    /\ Start
    /\ RemoveIdle
    /\ run = 1 /\ fs_before = fs

SpecStale == InitStale /\ [][Next]_vars

\* C21: a download_file call whose request is answered with an HTTP error
\* status (404 or another) ends there, and the local tree is what it was:
\* no file is created, and an existing destination keeps its content.
C21_HttpErrorLeavesDestination ==
    [][\A i \in 1..Len(futures) :
          (/\ futures[i].st = "request" /\ futures'[i].st # "request"
           /\ remote'[futures[i].path].status \in {"notfound", "error"})
          => /\ futures'[i].st \in {"notfound", "httperror"}
             /\ fs' = fs
      ]_vars

\* A fetch with overwrite=True of a file that was there has ended with an
\* HTTP error, and the file has the content it had.
C21_Witness ==
    \E i \in 1..Len(futures) :
        /\ futures[i].overwrite
        /\ futures[i].st = "httperror"
        /\ futures[i].path \in DOMAIN fs_before
        /\ futures[i].path \in DOMAIN fs
        /\ fs[futures[i].path] = "old"

-----------------------------------------------------------------------------
(* Statements about two calls for one destination *)

\* The positions of a download_file call that is past the existence test
\* and on its way to write the file, or has written it.
Fetching == {"request", "write", "inc_store", "downloaded"}

\* C22: of two package fetches of a run for the same destination, missing
\* when the run started, never both are past the existence test on the way
\* to download the file; and when one has downloaded it, the other has ended
\* as skipped.
C22_OneFetchPerDestination ==
    \A i, j \in PackageFetches :
        (/\ i # j
         /\ futures[i].path = futures[j].path
         /\ futures[i].path \notin DOMAIN fs_before)
        => /\ ~(futures[i].st \in Fetching /\ futures[j].st \in Fetching)
           /\ (futures[i].st = "downloaded" /\ futures[j].st \in Finished)
                 => futures[j].st = "skipped"

====
